---- MODULE Spec2Model ----
(***************************************************************************)
(* Model of the libdivecomputer drivers:                                   *)
(*   - the Oceanic VEO250 link protocol and device operations              *)
(*     (src/src/oceanic_veo250.c), specification Spec;                     *)
(*   - the Mares Darwin Air fingerprint store                              *)
(*     (src/src/mares_darwinair.c), specification SpecMares.               *)
(* The serial transport, the cancel callback and the dive computer are     *)
(* the environment: every call into them is one step whose outcome is      *)
(* chosen nondeterministically.                                            *)
(***************************************************************************)
EXTENDS Integers, Sequences, FiniteSets, TLC

\* ------------------------------------------------------------ constants

MAXRETRIES == 2
MULTIPAGE == 4
ACK == 90
NAK == 165
\* oceanic_common.h (PAGESIZE 0x10): the fixed page size of the protocol.
PAGESIZE == 16
\* sizeof (device->fingerprint) of the Mares Darwin Air.
FINGERPRINT_SIZE == 6

\* ---------------------------------------------------------------- bounds

\* A read asks for at most MaxPages pages (two transfers when > MULTIPAGE).
MaxPages == 5
\* set_fingerprint is called with at most MaxFpSize bytes.
MaxFpSize == 7
\* The small logbook has MaxEntries entries.
MaxEntries == 3
\* The small profile rings have at most MaxRing bytes.
MaxRing == 5
\* The marker-delimited rings have at most MaxSpan bytes.
MaxSpan == 5

\* First pages of the reads: the lowest page, and a range that runs past
\* the 16 bits a page index has in the command frame.
PageBases == {0, 65534}
\* Misalignment added to an address or to a size.
Offsets == {0, 1}
Addresses == {b * PAGESIZE + d : b \in PageBases, d \in Offsets}
Sizes == {k * PAGESIZE + d : k \in 0..MaxPages, d \in Offsets}
VersionSizes == {PAGESIZE - 1, PAGESIZE}
FpBytes == {0, 171}

\* --------------------------------------------------------------- statuses

SUCCESS == "DC_STATUS_SUCCESS"
INVALIDARGS == "DC_STATUS_INVALIDARGS"
NOMEMORY == "DC_STATUS_NOMEMORY"
IO == "DC_STATUS_IO"
TIMEOUT == "DC_STATUS_TIMEOUT"
PROTOCOL == "DC_STATUS_PROTOCOL"
CANCELLED == "DC_STATUS_CANCELLED"
\* No status yet: the operation has not returned.
RUNNING == "none"

DEVICE_STATUS_SUCCESS == "DEVICE_STATUS_SUCCESS"
DEVICE_STATUS_ERROR == "DEVICE_STATUS_ERROR"

\* ------------------------------------------------------------ environment

\* Outcomes of the transport calls on an open port.
WriteStatus == {SUCCESS, IO, TIMEOUT}
ReadStatus == {SUCCESS, IO, TIMEOUT}
SetupStatus == {SUCCESS, IO}
CloseStatus == {SUCCESS, IO}
OpenStatus == {SUCCESS, IO, NOMEMORY}
\* The gate byte the dive computer answers a command with.
GateBytes == {ACK, NAK, 0}
\* The last byte of an answer.
TermBytes == {NAK, ACK}

\* The byte the dive computer holds at an address.
DeviceByte(a) == (a * 7 + 3) % 256

\* Unsigned additive checksum of the bytes, modulo 256.
RECURSIVE checksum_add_uint8(_, _)
checksum_add_uint8(bytes, init) ==
    IF bytes = <<>> THEN init % 256
    ELSE checksum_add_uint8(Tail(bytes), (init + Head(bytes)) % 256)

\* The payload of page p (a 16 bit page index on the wire).
DevicePage(p) == [i \in 1..PAGESIZE |-> DeviceByte((p % 65536) * PAGESIZE + i - 1)]

\* How an answer is damaged on the wire: not at all, or page k's checksum
\* byte or first data byte is changed.
Corruptions(npackets) ==
    {<<"none", 0>>} \cup ({"crc", "data"} \X (0..(npackets - 1)))

\* One page block of an answer: the payload and its checksum byte.
PageBlock(payload, kind) ==
    LET sent == IF kind = "data"
                  THEN [payload EXCEPT ![1] = (@ + 1) % 256]
                  ELSE payload
        crc == checksum_add_uint8(payload, 0)
    IN Append(sent, IF kind = "crc" THEN (crc + 1) % 256 ELSE crc)

\* The answer to a read command for pages first .. first + npackets - 1.
RECURSIVE ReadAnswer(_, _, _, _, _)
ReadAnswer(first, npackets, i, corr, term) ==
    IF i >= npackets THEN <<term>>
    ELSE PageBlock(DevicePage(first + i),
                   IF corr[1] # "none" /\ corr[2] = i THEN corr[1] ELSE "none")
         \o ReadAnswer(first, npackets, i + 1, corr, term)

\* The identification page of the dive computer: "VEO 250 R\0\0 256K".
VersionStrings ==
    { <<86, 69, 79, 32, 50, 53, 48, 32, 82, 0, 0, 32, 50, 53, 54, 75>> }

\* The answers to the version command, each with whether it was damaged.
VersionAnswers ==
    { <<PageBlock(v, k) \o <<t>>, k # "none">> :
        v \in VersionStrings, k \in {"none", "crc", "data"}, t \in TermBytes }

\* The answers to the keepalive command (never damaged: no checksum).
KeepaliveAnswers == { << <<a, b>>, FALSE >> : a \in {NAK, 0}, b \in TermBytes }

\* The template the initialization handshake is compared to.
response == <<80, 80, 83, 45, 45, 79, 75, 95, 86, 50, 46, 48, 48>>

\* The complete replies to the initialization handshake.
InitAnswers ==
    {response, [response EXCEPT ![1] = 0], [response EXCEPT ![13] = 49]}

\* ---------------------------------------------------------------- state

VARIABLES
    pc,          \* position of the driver
    op,          \* the operation in progress, or the last one
    cancelled,   \* what device_is_cancelled answers
    last,        \* device->last
    version,     \* device->base.version
    rc,          \* status returned by the last operation
    trc,         \* status returned by the last transfer ("none": running)
    nretries,    \* transfer: nretries
    command,     \* transfer: command
    asize,       \* transfer: asize
    address,     \* read: address
    size,        \* read: size
    nbytes,      \* read: nbytes
    data,        \* read, version: the bytes copied to the caller's buffer
    log,         \* history: the calls made during this operation
    tstart,      \* history: Len(log) when the current transfer began
    args,        \* history: the arguments of the operation
    last0,       \* history: device->last when the operation began
    lastReq,     \* history: the last-page bytes of the last read request
                 \* whose transfer returned success
    initReply,   \* history: the reply to the initialization handshake
    exch,        \* history: what became of the last command written
    reqs,        \* history: the page ranges this read has asked for
    fingerprint, \* mares: device->fingerprint
    mrc,         \* mares: status returned by the last operation
    margs,       \* mares history: arguments of the last set_fingerprint
    fingerprint0, \* mares history: the fingerprint before that call
    mpc,         \* mares: position of foreach and of the extraction
    layout,      \* mares: device->layout
    image,       \* mares: the memory image dump has read
    iter,        \* extract_dives: i
    current,     \* extract_dives: current
    remain,      \* extract_dives: remaining
    emitted,     \* mares history: the events and the dives handed out
    access,      \* mares history: the bytes read from data[] and written
                 \* to the buffer, <<kind, offset, count>>
    frc,         \* mares: status returned by open or foreach
    spc,         \* suunto: position of suunto_common_extract_dives
    ring,        \* suunto: the arguments of the call
    ring_current,  \* suunto: current
    ring_previous, \* suunto: previous
    ring_i,      \* suunto: i
    delivered    \* suunto history: the dives handed to the callback

veoVars == <<pc, op, cancelled, last, version, rc, trc, nretries, command,
             asize, address, size, nbytes, data, log, tstart, args,
             last0, lastReq, initReply, exch, reqs>>
maresVars == <<fingerprint, mrc, margs, fingerprint0>>
extractVars == <<mpc, layout, image, iter, current, remain, emitted, frc,
                 access>>
suuntoVars == <<spc, ring, ring_current, ring_previous, ring_i, delivered>>
\* What the Oceanic driver never touches.
otherVars == <<maresVars, extractVars, suuntoVars>>
vars == <<veoVars, otherVars>>

\* What a returning transfer and the code after it may change.
resultVars == <<last, version, rc, trc, address, nbytes, data, lastReq>>
\* What belongs to the running call and transfer.
callVars == <<op, command, asize, size, tstart, args, last0, initReply,
              reqs>>

Zeros(n) == [i \in 1..n |-> 0]

\* mares_darwinair_layout: the memory layout of the Darwin Air.
mares_darwinair_layout ==
    [memsize |-> 16384,
     rb_logbook_offset |-> 256,
     rb_logbook_size |-> 60,
     rb_logbook_count |-> 50,
     rb_profile_begin |-> 3264,
     rb_profile_end |-> 16383,
     samplesize |-> 3]

\* No memory image has been read yet.
NoImage == [eop |-> 0, last |-> 0, nsamples |-> <<>>, lead |-> <<>>]
\* suunto_common_extract_dives has not been called yet.
NoRing == [bytes |-> <<>>, begin |-> 0, end |-> 0, eop |-> 0, peek |-> 0]

Init ==
    /\ pc = "unopened"
    /\ op = "none"
    /\ cancelled = FALSE
    /\ last = 0
    /\ version = Zeros(PAGESIZE)
    /\ rc = SUCCESS
    /\ trc = "none"
    /\ nretries = 0
    /\ command = <<>>
    /\ asize = 0
    /\ address = 0
    /\ size = 0
    /\ nbytes = 0
    /\ data = <<>>
    /\ log = <<>>
    /\ tstart = 0
    /\ args = <<>>
    /\ last0 = 0
    /\ lastReq = <<0, 0>>
    /\ initReply = "none"
    /\ exch = "none"
    /\ reqs = <<>>
    /\ fingerprint = Zeros(FINGERPRINT_SIZE)
    /\ mrc = DEVICE_STATUS_SUCCESS
    /\ margs = <<0, <<>>>>
    /\ fingerprint0 = Zeros(FINGERPRINT_SIZE)
    /\ mpc = "unopened"
    /\ layout = mares_darwinair_layout
    /\ image = NoImage
    /\ iter = 0
    /\ current = 0
    /\ remain = 0
    /\ emitted = <<>>
    /\ access = <<>>
    /\ frc = RUNNING
    /\ spc = "idle"
    /\ ring = NoRing
    /\ ring_current = 0
    /\ ring_previous = 0
    /\ ring_i = 0
    /\ delivered = <<>>

\* ------------------------------------------------- the code after transfer

\* Mutant: the number of packages of a request is not limited.
read_npackets_unlimited(remaining) == remaining \div PAGESIZE

\* oceanic_veo250_device_read: the number of packages of the next request.
read_npackets(remaining) ==
    LET npackets == remaining \div PAGESIZE
    IN IF npackets > MULTIPAGE THEN MULTIPAGE ELSE npackets

\* oceanic_veo250_device_read: the request for pages first .. last.
read_command(first, lastpage) ==
    <<32, first % 256, (first \div 256) % 256,
          lastpage % 256, (lastpage \div 256) % 256, 0>>

\* Mutant: the page index is encoded high byte first.
keepalive_command_be(lastpage) ==
    <<145, (lastpage \div 256) % 256, lastpage % 256, 0>>

\* oceanic_veo250_device_keepalive: the command naming device->last.
keepalive_command(lastpage) ==
    <<145, lastpage % 256, (lastpage \div 256) % 256, 0>>

\* Mutant: the offset is forgotten, the first page is verified each time.
checksum_ok_first_page(answer, offset) ==
    LET crc == answer[PAGESIZE + 1]
        ccrc == checksum_add_uint8(SubSeq(answer, 1, PAGESIZE), 0)
    IN crc = ccrc

\* The checksum of the page at offset is verified.
checksum_ok(answer, offset) ==
    LET crc == answer[offset + PAGESIZE + 1]
        ccrc == checksum_add_uint8(
                    SubSeq(answer, offset + 1, offset + PAGESIZE), 0)
    IN crc = ccrc

\* oceanic_veo250_device_read: the loop over the packages of one answer.
\* st is [rc, data, nbytes, address, events].
RECURSIVE read_packets(_, _, _, _)
read_packets(answer, npackets, i, st) ==
    IF i >= npackets THEN st
    ELSE LET offset == i * (PAGESIZE + 1)
         IN IF ~checksum_ok(answer, offset)
              THEN [st EXCEPT !.rc = PROTOCOL,
                              !.events = Append(@, <<"crc", i, FALSE>>)]
              ELSE read_packets(answer, npackets, i + 1,
                     [st EXCEPT
                        !.data = @ \o SubSeq(answer, offset + 1,
                                             offset + PAGESIZE),
                        !.nbytes = @ + PAGESIZE,
                        !.address = @ + PAGESIZE,
                        !.events = @ \o << <<"crc", i, TRUE>>,
                                           <<"copy", i, st.nbytes>> >>])

\* oceanic_veo250_device_read, after transfer returned st.
read_after_transfer(st, answer, lg) ==
    IF st # SUCCESS
      THEN /\ rc' = st
           /\ pc' = "idle"
           /\ log' = lg
           /\ UNCHANGED <<last, version, address, nbytes, data, lastReq>>
      ELSE LET npackets == read_npackets(size - nbytes)
               first == address \div PAGESIZE
               lastpage == first + npackets - 1
               r == read_packets(answer, npackets, 0,
                       [rc |-> SUCCESS, data |-> data, nbytes |-> nbytes,
                        address |-> address, events |-> <<>>])
           IN /\ last' = lastpage
              /\ lastReq' = <<command[4], command[5]>>
              /\ data' = r.data
              /\ nbytes' = r.nbytes
              /\ address' = r.address
              /\ log' = lg \o r.events
              /\ IF r.rc # SUCCESS
                   THEN rc' = r.rc /\ pc' = "idle"
                   ELSE rc' = RUNNING /\ pc' = "read_loop"
              /\ UNCHANGED version

\* oceanic_veo250_device_version, after transfer returned st:
\* [rc, data, events].
version_result(st, answer) ==
    IF st # SUCCESS THEN [rc |-> st, data |-> <<>>, events |-> <<>>]
    ELSE IF ~checksum_ok(answer, 0)
              THEN [rc |-> PROTOCOL, data |-> <<>>,
                    events |-> << <<"crc", 0, FALSE>> >>]
              ELSE [rc |-> SUCCESS, data |-> SubSeq(answer, 1, PAGESIZE),
                    events |-> << <<"crc", 0, TRUE>>, <<"copy", 0, 0>> >>]

version_after_transfer(st, answer, lg) ==
    LET r == version_result(st, answer)
    IN /\ rc' = r.rc
       /\ pc' = "idle"
       /\ data' = r.data
       /\ log' = lg \o r.events
       /\ UNCHANGED <<last, version, address, nbytes, lastReq>>

\* oceanic_veo250_device_open, after the version exchange.
open_after_transfer(st, answer, lg) ==
    LET r == version_result(st, answer)
    IN /\ log' = lg \o r.events
       /\ IF r.rc # SUCCESS
            THEN /\ pc' = "error_close"
                 /\ rc' = r.rc
                 /\ UNCHANGED version
            ELSE /\ pc' = "idle"
                 /\ rc' = SUCCESS
                 /\ version' = r.data
       /\ UNCHANGED <<last, address, nbytes, data, lastReq>>

\* oceanic_veo250_device_keepalive, after transfer returned st.
keepalive_after_transfer(st, answer, lg) ==
    /\ rc' = IF st # SUCCESS THEN st
             ELSE IF answer[1] # NAK THEN PROTOCOL ELSE SUCCESS
    /\ pc' = "idle"
    /\ log' = lg
    /\ UNCHANGED <<last, version, address, nbytes, data, lastReq>>

\* transfer returns st to the operation that called it.
transfer_return(st, answer, lg) ==
    /\ trc' = st
    /\ CASE op = "read" -> read_after_transfer(st, answer, lg)
         [] op = "version" -> version_after_transfer(st, answer, lg)
         [] op = "keepalive" -> keepalive_after_transfer(st, answer, lg)
         [] OTHER -> open_after_transfer(st, answer, lg)

\* ---------------------------------------------------------------- transfer

\* Mutant: an I/O error is retried like a timeout.
transfer_fatal_io(st) == st # TIMEOUT /\ st # PROTOCOL /\ st # IO

\* oceanic_veo250_transfer: a failure of send that is not retried.
transfer_fatal(st) == st # TIMEOUT /\ st # PROTOCOL

\* Mutant: the retry counter is compared with > instead of >=.
transfer_exhausted_late(n) == n > MAXRETRIES

\* oceanic_veo250_transfer: the maximum number of retries is reached.
transfer_exhausted(n) == n >= MAXRETRIES

\* Mutant: the answer is expected to end with ACK.
transfer_terminated_ack(answer, n) == answer[n] = ACK

\* oceanic_veo250_transfer: the last byte of the answer is verified.
transfer_terminated(answer, n) == answer[n] = NAK

\* oceanic_veo250_transfer: the body of the retry loop; send returned st.
transfer_loop(st, lg) ==
    LET lg2 == Append(lg, <<"sendret", st>>)
    IN IF st = SUCCESS
         THEN /\ pc' = "transfer_answer"
              /\ log' = lg2
              /\ UNCHANGED <<nretries, resultVars>>
         ELSE IF transfer_fatal(st)
           THEN /\ transfer_return(st, <<>>, lg2)
                /\ UNCHANGED nretries
           ELSE IF transfer_exhausted(nretries)
             THEN /\ nretries' = nretries + 1
                  /\ transfer_return(st, <<>>, lg2)
             ELSE /\ nretries' = nretries + 1
                  /\ pc' = "transfer_sleep"
                  /\ log' = lg2
                  /\ UNCHANGED resultVars

\* oceanic_veo250_transfer: delay the next attempt.
transfer_sleep ==
    /\ pc = "transfer_sleep"
    /\ log' = Append(log, <<"sleep">>)
    /\ pc' = "send"
    /\ UNCHANGED <<cancelled, nretries, resultVars, callVars, exch,
                   otherVars>>

\* The answers the dive computer may give to the command, each with
\* whether a page of it was damaged on the wire.
Answers ==
    CASE op = "read" ->
           LET npackets == (asize - 1) \div (PAGESIZE + 1)
               first == command[2] + 256 * command[3]
           IN { <<ReadAnswer(first, npackets, 0, c, t), c[1] # "none">> :
                  c \in Corruptions(npackets), t \in TermBytes }
      [] op = "keepalive" -> KeepaliveAnswers
      [] OTHER -> VersionAnswers

\* oceanic_veo250_transfer: receive and verify the answer.
transfer_answer ==
    /\ pc = "transfer_answer"
    /\ \/ /\ \E st \in ReadStatus \ {SUCCESS} :
               transfer_return(st, <<>>,
                   Append(log, <<"body", st, FALSE, FALSE>>))
          /\ exch' = "partial"
       \/ /\ \E a \in Answers :
               LET answer == a[1]
                   ok == transfer_terminated(answer, asize)
               IN transfer_return(IF ok THEN SUCCESS ELSE PROTOCOL, answer,
                      Append(log, <<"body", SUCCESS, answer[asize] = NAK,
                                    a[2]>>))
          /\ exch' = "consumed"
    /\ UNCHANGED <<cancelled, nretries, callVars, otherVars>>

\* -------------------------------------------------------------------- send

\* Mutant: the input is purged before the test for cancellation.
send_begin_purge_first ==
    /\ pc = "send"
    /\ IF cancelled
         THEN transfer_loop(CANCELLED,
                            log \o << <<"send", TRUE>>, <<"purge">> >>)
         ELSE /\ log' = log \o << <<"send", FALSE>>, <<"purge">> >>
              /\ pc' = "send_write"
              /\ UNCHANGED <<nretries, resultVars>>
    /\ UNCHANGED <<cancelled, callVars, exch, otherVars>>

\* Mutant: the garbage bytes are not discarded.
send_begin_no_purge ==
    /\ pc = "send"
    /\ IF cancelled
         THEN transfer_loop(CANCELLED, Append(log, <<"send", TRUE>>))
         ELSE /\ log' = Append(log, <<"send", FALSE>>)
              /\ pc' = "send_write"
              /\ UNCHANGED <<nretries, resultVars>>
    /\ UNCHANGED <<cancelled, callVars, exch, otherVars>>

\* oceanic_veo250_send: test for cancellation, discard garbage bytes.
send_begin ==
    /\ pc = "send"
    /\ IF cancelled
         THEN transfer_loop(CANCELLED, Append(log, <<"send", TRUE>>))
         ELSE /\ log' = log \o << <<"send", FALSE>>, <<"purge">> >>
              /\ pc' = "send_write"
              /\ UNCHANGED <<nretries, resultVars>>
    /\ UNCHANGED <<cancelled, callVars, exch, otherVars>>

\* oceanic_veo250_send: send the command to the dive computer.
send_write ==
    /\ pc = "send_write"
    /\ \E st \in WriteStatus :
         LET lg == Append(log, <<"write", st, command>>)
         IN IF st # SUCCESS
              THEN /\ transfer_loop(st, lg)
                   /\ exch' = "writefail"
              ELSE /\ log' = lg
                   /\ pc' = "send_response"
                   /\ exch' = "written"
                   /\ UNCHANGED <<nretries, resultVars>>
    /\ UNCHANGED <<cancelled, callVars, otherVars>>

\* oceanic_veo250_send: receive and verify the response (ACK/NAK).
send_response ==
    /\ pc = "send_response"
    /\ \/ /\ \E st \in ReadStatus \ {SUCCESS} :
               transfer_loop(st, Append(log, <<"gate", st, NAK>>))
          /\ exch' = "nogate"
       \/ \E byte \in GateBytes :
            /\ transfer_loop(IF byte # ACK THEN PROTOCOL ELSE SUCCESS,
                             Append(log, <<"gate", SUCCESS, byte>>))
            /\ exch' = IF byte # ACK THEN "refused" ELSE "gated"
    /\ UNCHANGED <<cancelled, callVars, otherVars>>

\* oceanic_veo250_transfer is entered with a command and an answer size.
transfer_begin(cmd, n, lg) ==
    /\ command' = cmd
    /\ asize' = n
    /\ nretries' = 0
    /\ trc' = "none"
    /\ tstart' = Len(lg)
    /\ log' = lg
    /\ pc' = "send"

\* What every operation sets when it is entered.
enter(name, a) ==
    /\ op' = name
    /\ args' = a
    /\ last0' = last
    /\ data' = <<>>
    /\ initReply' = "none"
    /\ reqs' = <<>>

\* The operation has not called transfer.
no_transfer ==
    /\ command' = <<>>
    /\ asize' = 0
    /\ nretries' = 0
    /\ trc' = "none"
    /\ tstart' = 0

\* The operation is not a read.
no_read ==
    /\ address' = 0
    /\ size' = 0
    /\ nbytes' = 0

\* -------------------------------------------------------------------- read

\* Mutant: only the address is tested.
read_misaligned_address(a, s) == a % PAGESIZE # 0

\* oceanic_veo250_device_read: address and size are multiples of the page.
read_misaligned(a, s) == (a % PAGESIZE # 0) \/ (s % PAGESIZE # 0)

\* oceanic_veo250_device_read is called.
device_read ==
    /\ pc = "idle"
    /\ \E a \in Addresses, s \in Sizes :
         /\ enter("read", <<a, s>>)
         /\ address' = a
         /\ size' = s
         /\ nbytes' = 0
         /\ log' = <<>>
         /\ no_transfer
         /\ IF read_misaligned(a, s)
              THEN rc' = INVALIDARGS /\ pc' = "idle"
              ELSE rc' = RUNNING /\ pc' = "read_loop"
    /\ UNCHANGED <<cancelled, last, version, lastReq, exch, otherVars>>

\* oceanic_veo250_device_read: the head of the loop, up to the transfer.
device_read_loop ==
    /\ pc = "read_loop"
    /\ IF nbytes < size
         THEN LET npackets == read_npackets(size - nbytes)
                  first == address \div PAGESIZE
                  lastpage == first + npackets - 1
              IN /\ transfer_begin(read_command(first, lastpage),
                                   (PAGESIZE + 1) * npackets + 1, <<>>)
                 /\ rc' = RUNNING
                 /\ reqs' = Append(reqs, <<first, lastpage>>)
         ELSE /\ rc' = SUCCESS
              /\ pc' = "idle"
              /\ UNCHANGED <<command, asize, nretries, trc, tstart, log,
                             reqs>>
    /\ UNCHANGED <<op, cancelled, last, version, address, size, nbytes, data,
                   args, last0, lastReq, initReply, exch, otherVars>>

\* ----------------------------------------------------------------- version

\* oceanic_veo250_device_version is called with a buffer of s bytes.
device_version ==
    /\ pc = "idle"
    /\ \E s \in VersionSizes :
         /\ enter("version", <<s>>)
         /\ IF s < PAGESIZE
              THEN /\ rc' = INVALIDARGS
                   /\ pc' = "idle"
                   /\ log' = <<>>
                   /\ no_transfer
              ELSE /\ transfer_begin(<<144, 0>>, PAGESIZE + 2, <<>>)
                   /\ rc' = RUNNING
    /\ no_read
    /\ UNCHANGED <<cancelled, last, version, lastReq, exch, otherVars>>

\* --------------------------------------------------------------- keepalive

\* oceanic_veo250_device_keepalive is called.
device_keepalive ==
    /\ pc = "idle"
    /\ enter("keepalive", <<>>)
    /\ transfer_begin(keepalive_command(last), 2, <<>>)
    /\ rc' = RUNNING
    /\ no_read
    /\ UNCHANGED <<cancelled, last, version, lastReq, exch, otherVars>>

\* ------------------------------------------------------------------- close

\* Mutant: close returns the error of a failed surface mode command.
close_after_quit_early(st) ==
    IF st # SUCCESS THEN "closed" ELSE "serial_close"

\* oceanic_veo250_device_close: what follows oceanic_veo250_quit.
close_after_quit(st) == "serial_close"

\* oceanic_veo250_device_close is called; oceanic_veo250_quit sends the
\* command that switches the device back to surface mode.
device_close_quit ==
    /\ pc = "idle"
    /\ enter("close", <<>>)
    /\ \E st \in WriteStatus :
         /\ log' = << <<"write", st, <<152, 0>> >> >>
         /\ pc' = close_after_quit(st)
         /\ rc' = IF close_after_quit(st) = "closed" THEN st ELSE RUNNING
         /\ exch' = IF st # SUCCESS THEN "writefail" ELSE "written"
    /\ no_transfer
    /\ no_read
    /\ UNCHANGED <<cancelled, last, version, lastReq, otherVars>>

\* oceanic_veo250_device_close: close the device, return its status.
device_close_serial ==
    /\ pc = "serial_close"
    /\ \E st \in CloseStatus :
         /\ log' = Append(log, <<"close", st>>)
         /\ rc' = IF st # SUCCESS THEN st ELSE SUCCESS
    /\ pc' = "closed"
    /\ UNCHANGED <<cancelled, last, version, trc, nretries, address, nbytes,
                   data, lastReq, callVars, exch, otherVars>>

\* -------------------------------------------------------------------- open

\* Mutant: a reply that differs from the template is let through.
init_verify_lenient(answer) == SUCCESS

\* oceanic_veo250_init: the answer is compared to the template.
init_verify(answer) == IF answer # response THEN PROTOCOL ELSE SUCCESS

\* oceanic_veo250_device_open: allocate the device, open the serial port.
device_open ==
    /\ pc = "unopened"
    /\ enter("open", <<>>)
    /\ last' = 0
    /\ \E st \in OpenStatus :
         /\ rc' = IF st = SUCCESS THEN RUNNING ELSE st
         /\ log' = IF st = NOMEMORY THEN <<>> ELSE << <<"open", st>> >>
         /\ pc' = IF st = SUCCESS THEN "configure" ELSE "failed"
    /\ UNCHANGED <<cancelled, version, trc, nretries, command, asize, address,
                   size, nbytes, tstart, lastReq, exch, otherVars>>

\* The calls that set the port up, in order.
SetupSteps == <<"configure", "set_timeout", "set_dtr", "set_rts">>

\* oceanic_veo250_device_open: configure, set the timeout, DTR and RTS;
\* after the last one, settle, purge and send the init command.
device_open_setup ==
    \E i \in 1..Len(SetupSteps) :
      /\ pc = SetupSteps[i]
      /\ \E st \in SetupStatus :
           /\ rc' = IF st # SUCCESS THEN st ELSE RUNNING
           /\ IF st # SUCCESS
                THEN /\ pc' = "error_close"
                     /\ log' = Append(log, <<SetupSteps[i], st>>)
                ELSE IF i < Len(SetupSteps)
                  THEN /\ pc' = SetupSteps[i + 1]
                       /\ log' = Append(log, <<SetupSteps[i], st>>)
                  ELSE /\ pc' = "init_write"
                       /\ log' = log \o << <<SetupSteps[i], st>>,
                                          <<"sleep">>, <<"purge">> >>
      /\ UNCHANGED <<cancelled, last, version, trc, nretries, address, nbytes,
                     data, lastReq, callVars, exch, otherVars>>

\* oceanic_veo250_init: send the command to the dive computer.
init_write ==
    /\ pc = "init_write"
    /\ \E st \in WriteStatus :
         /\ log' = Append(log, <<"write", st, <<85, 0>> >>)
         /\ rc' = IF st # SUCCESS THEN st ELSE RUNNING
         /\ pc' = IF st # SUCCESS THEN "error_close" ELSE "init_read"
         /\ exch' = IF st # SUCCESS THEN "writefail" ELSE "written"
    /\ UNCHANGED <<cancelled, last, version, trc, nretries, address, nbytes,
                   data, lastReq, callVars, otherVars>>

\* oceanic_veo250_device_open: init returned st; on success delay, then ask
\* for the version.
open_after_init(st, reply, lg) ==
    /\ initReply' = reply
    /\ IF st # SUCCESS
         THEN /\ rc' = st
              /\ pc' = "error_close"
              /\ log' = lg
              /\ UNCHANGED <<command, asize, nretries, trc, tstart>>
         ELSE /\ rc' = RUNNING
              /\ transfer_begin(<<144, 0>>, PAGESIZE + 2,
                                Append(lg, <<"sleep">>))

\* oceanic_veo250_init: receive and verify the answer.
init_read ==
    /\ pc = "init_read"
    /\ \/ \E st \in ReadStatus \ {SUCCESS}, n \in {0, 1, 12} :
            /\ open_after_init(IF n = 0 THEN SUCCESS ELSE st,
                               IF n = 0 THEN "empty" ELSE "partial",
                               Append(log, <<"read", st, n>>))
            /\ exch' = IF n = 0 THEN "nogate" ELSE "partial"
       \/ /\ \E answer \in InitAnswers :
               open_after_init(init_verify(answer),
                               IF answer = response THEN "match"
                                                    ELSE "mismatch",
                               Append(log, <<"read", SUCCESS, 13>>))
          /\ exch' = "consumed"
    /\ UNCHANGED <<op, cancelled, last, version, address, size, nbytes, data,
                   args, last0, lastReq, reqs, otherVars>>

\* oceanic_veo250_device_open: error_close, error_free.
device_open_error ==
    /\ pc = "error_close"
    /\ log' = Append(log, <<"close", SUCCESS>>)
    /\ pc' = "failed"
    /\ UNCHANGED <<cancelled, resultVars, nretries, callVars, exch,
                   otherVars>>

\* ------------------------------------------------------------- environment

\* The application's cancel callback changes its answer.
cancel ==
    /\ pc \notin {"unopened", "failed", "closed"}
    /\ cancelled' = ~cancelled
    /\ UNCHANGED <<pc, log, nretries, resultVars, callVars, exch,
                   otherVars>>

Next ==
    \/ device_open
    \/ device_open_setup
    \/ init_write
    \/ init_read
    \/ device_open_error
    \/ device_read
    \/ device_read_loop
    \/ device_version
    \/ device_keepalive
    \/ device_close_quit
    \/ device_close_serial
    \/ send_begin
    \/ send_write
    \/ send_response
    \/ transfer_sleep
    \/ transfer_answer
    \/ cancel

Spec == Init /\ [][Next]_vars

\* ------------------------------------------------------ mares darwin air

\* Mutant: the size is compared with < instead of !=.
fingerprint_invalid_short(n) == n # 0 /\ n < FINGERPRINT_SIZE

\* mares_darwinair_device_set_fingerprint: the size is refused.
fingerprint_invalid(n) == n # 0 /\ n # FINGERPRINT_SIZE

\* mares_darwinair_device_set_fingerprint (data, n).
set_fingerprint(n, d) ==
    /\ margs' = <<n, d>>
    /\ fingerprint0' = fingerprint
    /\ IF fingerprint_invalid(n)
         THEN /\ mrc' = DEVICE_STATUS_ERROR
              /\ UNCHANGED fingerprint
         ELSE /\ mrc' = DEVICE_STATUS_SUCCESS
              /\ fingerprint' =
                   IF n # 0
                     THEN [i \in 1..FINGERPRINT_SIZE |-> d[i]]
                     ELSE Zeros(FINGERPRINT_SIZE)
    /\ UNCHANGED <<veoVars, extractVars, suuntoVars>>

\* mares_darwinair_device_set_fingerprint is called with n bytes.
mares_darwinair_device_set_fingerprint ==
    \E n \in 0..MaxFpSize :
      \E d \in [1..n -> FpBytes] : set_fingerprint(n, d)

MaresNext == mares_darwinair_device_set_fingerprint

SpecMares == Init /\ [][MaresNext]_vars

\* ------------------------------------------- mares darwin air: extraction

DEVICE_STATUS_MEMORY == "DEVICE_STATUS_MEMORY"
DEVICE_STATUS_IO == "DEVICE_STATUS_IO"
DEVICE_STATUS_TIMEOUT == "DEVICE_STATUS_TIMEOUT"
DEVICE_STATUS_PROTOCOL == "DEVICE_STATUS_PROTOCOL"

\* What mares_darwinair_device_dump may return.
DumpStatus == {DEVICE_STATUS_SUCCESS, DEVICE_STATUS_MEMORY, DEVICE_STATUS_IO,
               DEVICE_STATUS_TIMEOUT, DEVICE_STATUS_PROTOCOL}

\* A layout of the shape of mares_darwinair_layout with count logbook
\* entries of 8 bytes, a profile ring of ringsize bytes, one byte a sample.
small_layout(count, ringsize) ==
    [memsize |-> 256 + 8 * count + ringsize + 1,
     rb_logbook_offset |-> 256,
     rb_logbook_size |-> 8,
     rb_logbook_count |-> count,
     rb_profile_begin |-> 256 + 8 * count,
     rb_profile_end |-> 256 + 8 * count + ringsize,
     samplesize |-> 1]

\* The layouts a device is opened with: the Darwin Air's, a small one with
\* several entries, and small ones with a single entry and every ring size.
Layouts ==
    {mares_darwinair_layout, small_layout(MaxEntries, MaxRing)}
      \cup {small_layout(1, r) : r \in 2..MaxRing}

\* The size of the profile ring.
RingSize(lay) == lay.rb_profile_end - lay.rb_profile_begin

\* The leading bytes of a logbook entry: the fingerprint a caller stores,
\* one that differs from it in the last byte, zeros, and bytes of its own.
LeadA == [i \in 1..FINGERPRINT_SIZE |-> 171]
LeadA2 == [LeadA EXCEPT ![FINGERPRINT_SIZE] = 0]
LeadZ == Zeros(FINGERPRINT_SIZE)
LeadC(k) == [i \in 1..FINGERPRINT_SIZE |-> IF i = 1 THEN k ELSE i]

\* The leading bytes of the count entries of a logbook.
LeadPatterns(count) ==
    LET base == [k \in 1..count |-> LeadC(k)]
    IN {base, [k \in 1..count |-> LeadA]}
         \cup {[base EXCEPT ![j] = v] :
                 j \in 1..count, v \in {LeadA, LeadA2, LeadZ}}

\* The sample counts of the entries: 0xFFFF marks an unused entry.
NSamples(lay) ==
    IF lay.rb_logbook_count = 1
      THEN 0..(RingSize(lay) + 1) \cup {65535}
      ELSE {0, 2, RingSize(lay) - 1, 65535}

\* The end-of-profile pointers and the last logbook indexes of the images.
Eops(lay) ==
    IF lay.rb_logbook_count = 1
      THEN lay.rb_profile_begin..(lay.rb_profile_end - 1)
      ELSE {lay.rb_profile_begin - 1, lay.rb_profile_begin,
            lay.rb_profile_begin + 1, lay.rb_profile_end - 1,
            lay.rb_profile_end}
Lasts(lay) ==
    IF lay.rb_logbook_count = 1 THEN {0} ELSE {1, lay.rb_logbook_count}

\* The image of scenario 1: one dive of 10 samples in entry 0, the profile
\* ends 5 bytes into the ring; the other entries are unused.
ScenarioImages ==
    {[eop |-> 3269, last |-> 0,
      nsamples |-> [k \in 1..50 |-> IF k = 1 THEN 10
                                    ELSE IF k = 50 THEN older ELSE 65535],
      lead |-> [k \in 1..50 |-> IF k = 1 THEN l ELSE LeadC(k)]] :
       older \in {65535, 4364}, l \in {LeadC(1), LeadA}}

\* The memory images dump may read from a device of the layout.
Images(lay) ==
    IF lay = mares_darwinair_layout THEN ScenarioImages
    ELSE LET n == lay.rb_logbook_count
         IN {img \in [eop : Eops(lay), last : Lasts(lay),
                      nsamples : [1..n -> NSamples(lay)],
                      lead : LeadPatterns(n)] :
               \/ /\ img.eop >= lay.rb_profile_begin
                  /\ img.eop < lay.rb_profile_end
                  /\ img.last < n
               \/ /\ img.nsamples = [k \in 1..n |-> 2]
                  /\ img.lead = [k \in 1..n |-> LeadC(k)]}

\* The byte of the image at an address: the end-of-profile pointer at 0x8A,
\* the last logbook index at 0x8C, the logbook entries (six leading bytes,
\* then the sample count), and everything else.
data_at(lay, img, a) ==
    LET rel == a - lay.rb_logbook_offset
        k == rel \div lay.rb_logbook_size
        j == rel % lay.rb_logbook_size
    IN IF a = 138 THEN img.eop \div 256
       ELSE IF a = 139 THEN img.eop % 256
       ELSE IF a = 140 THEN img.last
       ELSE IF rel >= 0 /\ k < lay.rb_logbook_count
         THEN IF j < FINGERPRINT_SIZE THEN img.lead[k + 1][j + 1]
              ELSE IF j = 6 THEN img.nsamples[k + 1] \div 256
              ELSE IF j = 7 THEN img.nsamples[k + 1] % 256
              ELSE DeviceByte(a)
         ELSE DeviceByte(a)

\* array_uint16_be (data + a).
array_uint16_be(lay, img, a) ==
    data_at(lay, img, a) * 256 + data_at(lay, img, a + 1)

\* memcpy of n bytes from data + a.
memcpy_from(lay, img, a, n) == [k \in 1..n |-> data_at(lay, img, a + k - 1)]

\* Mutant: the end of the ring is taken for a valid pointer.
eop_invalid_inclusive(lay, eop) ==
    eop < lay.rb_profile_begin \/ eop > lay.rb_profile_end

\* mares_darwinair_extract_dives: the profile pointer is refused.
eop_invalid(lay, eop) ==
    eop < lay.rb_profile_begin \/ eop >= lay.rb_profile_end

\* mares_darwinair_extract_dives: the logbook index is refused.
last_invalid(lay, lastidx) == lastidx >= lay.rb_logbook_count

\* Mutant: the sample size is forgotten.
dive_length_samples(lay, nsamples) == nsamples

\* mares_darwinair_extract_dives: the length of a dive.
dive_length(lay, nsamples) == nsamples * lay.samplesize

\* Mutant: the entries are walked upwards.
logbook_idx_up(lay, lastidx, i) ==
    (lay.rb_logbook_count + lastidx + i) % lay.rb_logbook_count

\* mares_darwinair_extract_dives: the logbook entry of iteration i.
logbook_idx(lay, lastidx, i) ==
    (lay.rb_logbook_count + lastidx - i) % lay.rb_logbook_count

\* Mutant: the profile is always copied in one piece.
profile_copy_flat(lay, img, cur, length) ==
    [bytes |-> memcpy_from(lay, img, cur - length, length),
     current |-> cur - length]

\* mares_darwinair_extract_dives: copy the profile data that ends at cur.
profile_copy(lay, img, cur, length) ==
    IF cur < lay.rb_profile_begin + length
      THEN LET a == cur - lay.rb_profile_begin
               b == length - a
           IN [bytes |-> memcpy_from(lay, img, lay.rb_profile_end - b, b)
                           \o memcpy_from(lay, img, lay.rb_profile_begin, a),
               current |-> lay.rb_profile_end - b]
      ELSE [bytes |-> memcpy_from(lay, img, cur - length, length),
            current |-> cur - length]

\* mares_darwinair_extract_dives: what the copy of the profile data that
\* ends at cur reads from data[] and writes to the buffer.
profile_access(lay, cur, length) ==
    IF cur < lay.rb_profile_begin + length
      THEN LET a == cur - lay.rb_profile_begin
               b == length - a
           IN << <<"profile", lay.rb_profile_end - b, b>>,
                 <<"buffer", lay.rb_logbook_size, b>>,
                 <<"profile", lay.rb_profile_begin, a>>,
                 <<"buffer", lay.rb_logbook_size + b, a>> >>
      ELSE << <<"profile", cur - length, length>>,
              <<"buffer", lay.rb_logbook_size, length>> >>

\* Mutant: the length of the dive is not taken off.
remaining_after_kept(remaining, length) == remaining

\* mares_darwinair_extract_dives: remaining -= length. The unsigned int
\* would wrap where this value is negative.
remaining_after(remaining, length) == remaining - length

\* Mutant: the result of the comparison is taken the wrong way round.
fingerprint_match_inverted(buffer) ==
    SubSeq(buffer, 1, FINGERPRINT_SIZE) # fingerprint

\* mares_darwinair_extract_dives: the dive is the one already downloaded.
fingerprint_match(buffer) ==
    SubSeq(buffer, 1, FINGERPRINT_SIZE) = fingerprint

\* suunto_common_extract_dives has not been called.
SuuntoUnused == spc = "idle" /\ ring = NoRing

\* mares_darwinair_device_open: the default values, the layout, the port.
mares_darwinair_device_open ==
    /\ mpc = "unopened"
    /\ SuuntoUnused
    /\ \E st \in {DEVICE_STATUS_SUCCESS, DEVICE_STATUS_MEMORY,
                  DEVICE_STATUS_IO} :
         /\ frc' = st
         /\ IF st = DEVICE_STATUS_SUCCESS
              THEN /\ mpc' = "idle"
                   /\ layout' \in Layouts
                   /\ fingerprint' = Zeros(FINGERPRINT_SIZE)
              ELSE /\ mpc' = "failed"
                   /\ UNCHANGED <<layout, fingerprint>>
    /\ UNCHANGED <<veoVars, suuntoVars, mrc, margs, fingerprint0, image, iter,
                   current, remain, emitted, access>>

\* The application sets or clears the fingerprint before the download.
device_set_fingerprint ==
    /\ mpc = "idle"
    /\ \E d \in {<<>>, LeadA} : set_fingerprint(Len(d), d)

\* mares_darwinair_device_foreach: free the buffer, return the status of
\* the extraction.
foreach_return(st) == st

\* mares_darwinair_extract_dives returns st after the events ev, and
\* foreach returns.
extract_return(st, ev) ==
    /\ emitted' = Append(ev, <<"return", st>>)
    /\ frc' = foreach_return(st)
    /\ mpc' = "returned"

\* mares_darwinair_extract_dives: the pointers are verified, the buffer is
\* allocated; ev are the events up to the call.
extract_dives_begin(img, ev, acc) ==
    LET eop == array_uint16_be(layout, img, 138)
        lastidx == data_at(layout, img, 140)
    IN IF eop_invalid(layout, eop)
         THEN /\ extract_return(DEVICE_STATUS_ERROR, ev)
              /\ access' = Append(acc, <<"data", 138, 2>>)
              /\ iter' = 0 /\ current' = 0 /\ remain' = 0
       ELSE IF last_invalid(layout, lastidx)
         THEN /\ extract_return(DEVICE_STATUS_ERROR, ev)
              /\ access' = acc \o << <<"data", 138, 2>>, <<"data", 140, 1>> >>
              /\ iter' = 0 /\ current' = 0 /\ remain' = 0
         ELSE /\ access' = acc \o << <<"data", 138, 2>>, <<"data", 140, 1>> >>
              /\ \/ /\ extract_return(DEVICE_STATUS_MEMORY, ev)
                    /\ iter' = 0 /\ current' = 0 /\ remain' = 0
                 \/ /\ mpc' = "loop"
                    /\ frc' = RUNNING
                    /\ emitted' = ev
                    /\ iter' = 0
                    /\ current' = eop
                    /\ remain' = layout.rb_profile_end
                                   - layout.rb_profile_begin

\* Mutant: the device info is emitted once the dives are extracted.
foreach_events_late(st, img) == << <<"dump", st>> >>

\* mares_darwinair_device_foreach: what has happened when the extraction is
\* called: the dump, then the device info event with the serial number.
foreach_events(st, img) ==
    << <<"dump", st>>, <<"devinfo", array_uint16_be(layout, img, 8)>> >>

\* mares_darwinair_device_foreach is called: the buffer, the dump, the
\* device info event and the call of the extraction.
mares_darwinair_device_foreach ==
    /\ mpc = "idle"
    /\ \/ /\ frc' = DEVICE_STATUS_MEMORY
          /\ mpc' = "returned"
          /\ emitted' = <<>>
          /\ access' = <<>>
          /\ image' = NoImage
          /\ iter' = 0 /\ current' = 0 /\ remain' = 0
       \/ \E st \in DumpStatus \ {DEVICE_STATUS_SUCCESS} :
            /\ frc' = st
            /\ mpc' = "returned"
            /\ emitted' = << <<"dump", st>> >>
            /\ access' = <<>>
            /\ image' = NoImage
            /\ iter' = 0 /\ current' = 0 /\ remain' = 0
       \/ \E img \in Images(layout) :
            /\ image' = img
            /\ extract_dives_begin(img,
                 foreach_events(DEVICE_STATUS_SUCCESS, img),
                 << <<"data", 8, 2>> >>)
    /\ UNCHANGED <<veoVars, maresVars, suuntoVars, layout>>

\* Mutant: what the callback returns is not looked at.
consumer_stop_ignored(keep) == FALSE

\* mares_darwinair_extract_dives: the callback returns 0 for the dive.
consumer_stop(keep) == ~keep

\* mares_darwinair_extract_dives: one iteration of the loop over the
\* logbook entries; keep is what the callback returns for a dive.
extract_dives_loop ==
    /\ mpc = "loop"
    /\ LET lastidx == data_at(layout, image, 140)
           idx == logbook_idx(layout, lastidx, iter)
           offset == layout.rb_logbook_offset + idx * layout.rb_logbook_size
           nsamples == array_uint16_be(layout, image, offset + 6)
           length == dive_length(layout, nsamples)
           ev == Append(emitted, <<"slot", idx>>)
           acc == Append(access, <<"data", offset + 6, 2>>)
       IN IF nsamples = 65535 \/ length > remain
            THEN /\ extract_return(DEVICE_STATUS_SUCCESS, ev)
                 /\ access' = acc
                 /\ UNCHANGED <<iter, current, remain>>
            ELSE LET c == profile_copy(layout, image, current, length)
                     buffer == memcpy_from(layout, image, offset,
                                           layout.rb_logbook_size) \o c.bytes
                 IN /\ current' = c.current
                    /\ access' =
                         acc \o << <<"data", offset, layout.rb_logbook_size>>,
                                   <<"buffer", 0, layout.rb_logbook_size>> >>
                             \o profile_access(layout, current, length)
                    /\ IF fingerprint_match(buffer)
                         THEN /\ extract_return(DEVICE_STATUS_SUCCESS,
                                     Append(ev, <<"match", idx>>))
                              /\ UNCHANGED <<iter, remain>>
                         ELSE \E keep \in BOOLEAN :
                                LET ev2 == Append(ev,
                                      <<"dive", idx, length, buffer, keep>>)
                                IN IF consumer_stop(keep)
                                     THEN /\ extract_return(
                                               DEVICE_STATUS_SUCCESS, ev2)
                                          /\ UNCHANGED <<iter, remain>>
                                     ELSE /\ remain' =
                                               remaining_after(remain, length)
                                          /\ iter' = iter + 1
                                          /\ IF iter + 1 <
                                                  layout.rb_logbook_count
                                               THEN /\ mpc' = "loop"
                                                    /\ frc' = RUNNING
                                                    /\ emitted' = ev2
                                               ELSE extract_return(
                                                      DEVICE_STATUS_SUCCESS,
                                                      ev2)
    /\ UNCHANGED <<veoVars, maresVars, suuntoVars, layout, image>>

DarwinNext ==
    \/ mares_darwinair_device_open
    \/ device_set_fingerprint
    \/ mares_darwinair_device_foreach
    \/ extract_dives_loop

\* ------------------------------------------------- suunto_common: the ring

\* ringbuffer.h: a - delta, wrapped into [begin, end).
ringbuffer_decrement(a, delta, begin, end) ==
    begin + (((a - begin) + delta * (end - begin) - delta) % (end - begin))

\* ringbuffer.h: the number of bytes from a forward to b, wrapped.
ringbuffer_distance(a, b, begin, end) ==
    IF a <= b THEN (b - a) % (end - begin)
    ELSE (end - begin) - ((a - b) % (end - begin))

\* The bytes of the ring: the end-of-dive marker 0x80, the end-of-profile
\* marker 0x82, and a sample byte that tells its address.
SampleByte(a) == a + 1
RingByteKinds == {"dive", "profile", "sample"}
RingByte(kind, a) ==
    IF kind = "dive" THEN 128 ELSE IF kind = "profile" THEN 130
    ELSE SampleByte(a)

\* The ring of scenario 2: 16 bytes, the end-of-profile marker at 10, an
\* end-of-dive marker at 6, samples elsewhere.
ScenarioRing ==
    [bytes |-> [k \in 1..16 |-> IF k - 1 = 10 THEN 130
                                ELSE IF k - 1 = 6 THEN 128
                                ELSE SampleByte(k - 1)],
     begin |-> 0, end |-> 16, eop |-> 10, peek |-> 2]

\* The arguments of a call of suunto_common_extract_dives: a ring of n
\* bytes of the given kinds that follows b bytes of other data, the
\* end-of-profile pointer e and the peek distance p.
RingOf(b, n, kinds, e, p) ==
    [bytes |-> [k \in 1..(b + n) |->
                  IF k <= b THEN SampleByte(k - 1)
                  ELSE RingByte(kinds[k - b], k - 1)],
     begin |-> b, end |-> b + n, eop |-> e, peek |-> p]

\* data[a] of the call.
ring_data(r, a) == r.bytes[a + 1]

\* Mutant: the ring is left at its begin instead of wrapping to its end.
ring_back_no_wrap(r, cur) == IF cur = r.begin THEN r.begin ELSE cur - 1

\* suunto_common_extract_dives: move backwards through the ringbuffer.
ring_back(r, cur) == (IF cur = r.begin THEN r.end ELSE cur) - 1

\* Mutant: the copy starts one byte late.
suunto_copy_late(r, cur, len) ==
    [k \in 1..len |-> ring_data(r, r.begin +
                        ((cur + k - r.begin) % (r.end - r.begin)))]

\* suunto_common_extract_dives: copy the len bytes of the dive at cur.
suunto_copy(r, cur, len) ==
    IF cur + len > r.end
      THEN LET a == r.end - cur
               b == (cur + len) - r.end
           IN [k \in 1..a |-> ring_data(r, cur + k - 1)]
                \o [k \in 1..b |-> ring_data(r, r.begin + k - 1)]
      ELSE [k \in 1..len |-> ring_data(r, cur + k - 1)]

\* mares_darwinair_device_open has not been called.
DarwinUnused == mpc = "unopened"

\* suunto_common_extract_dives is called on the ring r: the assertions on
\* its arguments, current and previous.
extract_dives_call(r) ==
    /\ ring' = r
    /\ spc' = IF r.eop >= r.begin /\ r.eop < r.end
                 /\ ring_data(r, r.eop) = 130
                THEN "walk" ELSE "aborted"
    /\ ring_current' = r.eop
    /\ ring_previous' = r.eop
    /\ ring_i' = 0
    /\ delivered' = <<>>
    /\ UNCHANGED <<veoVars, maresVars, extractVars>>

\* The calls of suunto_common_extract_dives: the ring of scenario 2, and
\* every content of every ring of at most MaxSpan bytes, at the start of the
\* data or after two bytes, with every eop in the ring.
suunto_common_extract_dives ==
    /\ spc = "idle"
    /\ ring = NoRing
    /\ DarwinUnused
    /\ \/ extract_dives_call(ScenarioRing)
       \/ \E n \in 1..MaxSpan, b \in {0, 2}, p \in {1, 2} :
            \E kinds \in [1..n -> RingByteKinds], e \in b..(b + n - 1) :
              extract_dives_call(RingOf(b, n, kinds, e, p))

\* suunto_common_extract_dives: one iteration of the loop, and the final
\* assertion when it was the last.
extract_dives_walk ==
    /\ spc = "walk"
    /\ LET cur == ring_back(ring, ring_current)
           index == ringbuffer_decrement(cur, ring.peek, ring.begin,
                                         ring.end)
           len == ringbuffer_distance(cur, ring_previous, ring.begin,
                                      ring.end)
       IN /\ ring_current' = cur
          /\ IF ring_data(ring, cur) = 130
               THEN /\ spc' = "returned"
                    /\ UNCHANGED <<ring_i, ring_previous, delivered>>
               ELSE /\ IF ring_data(ring, index) = 128
                         THEN /\ delivered' = Append(delivered,
                                   [bytes |-> suunto_copy(ring, cur, len),
                                    len |-> len, from |-> cur,
                                    to |-> ring_previous])
                              /\ ring_previous' = cur
                         ELSE UNCHANGED <<delivered, ring_previous>>
                    /\ ring_i' = ring_i + 1
                    /\ spc' = IF ring_i + 1 < ring.end - ring.begin
                                THEN "walk" ELSE "aborted"
    /\ UNCHANGED <<veoVars, maresVars, extractVars, ring>>

SuuntoNext ==
    \/ suunto_common_extract_dives
    \/ extract_dives_walk

\* The extraction of dives from a memory image, by either variant.
ExtractNext == DarwinNext \/ SuuntoNext

SpecExtract == Init /\ [][ExtractNext]_vars


\* ------------------------------------------------------------------ claims

\* The places in the log of the current transfer's events of one kind.
Idx(kind) == {i \in (tstart + 1)..Len(log) : log[i][1] = kind}
\* The calls into the transport.
TransportKinds == {"purge", "write", "gate", "body", "sleep", "read"}
\* The greatest element of a non-empty set of numbers.
Max(S) == CHOOSE x \in S : \A y \in S : y <= x
\* A transfer has been entered in this operation.
InTransfer == command # <<>>
\* The statuses of send after which transfer tries again.
Retryable == {TIMEOUT, PROTOCOL}

\* C1: one transfer invokes send at most MAXRETRIES + 1 times; when every
\* attempt failed with a timeout or a protocol error, it has invoked send
\* exactly MAXRETRIES + 1 times, slept MAXRETRIES times and never after the
\* last attempt, has not read the answer, and returns the last attempt's
\* error.
C1_RetryBound ==
    InTransfer =>
      LET sends == Idx("send")
          rets == Idx("sendret")
          sleeps == Idx("sleep")
      IN /\ Cardinality(sends) <= MAXRETRIES + 1
         /\ (/\ trc # "none"
             /\ rets # {}
             /\ \A i \in rets : log[i][2] \in Retryable)
            => /\ Cardinality(sends) = MAXRETRIES + 1
               /\ Cardinality(rets) = MAXRETRIES + 1
               /\ Cardinality(sleeps) = MAXRETRIES
               /\ \A i \in sleeps : i < Max(sends)
               /\ Idx("body") = {}
               /\ trc = log[Max(rets)][2]

\* Three NAKs in a row: the transfer gave up with the protocol error.
C1_Witness ==
    /\ InTransfer
    /\ trc = PROTOCOL
    /\ Cardinality({i \in Idx("gate") : log[i][3] = NAK}) = MAXRETRIES + 1

\* C2: once an attempt of a transfer is answered with ACK, after failures
\* that were only timeouts and protocol errors, no further send is made, the
\* answer is read exactly once, and the transfer returns success whenever
\* the answer was read in full and ends with NAK.
C2_AckThenAnswer ==
    InTransfer =>
      \A k \in Idx("sendret") :
        log[k][2] = SUCCESS =>
          /\ \A j \in Idx("sendret") : j < k => log[j][2] \in Retryable
          /\ \A j \in Idx("send") \cup Idx("sleep") : j < k
          /\ Cardinality(Idx("body")) <= 1
          /\ trc # "none" =>
               /\ Idx("body") = {k + 1}
               /\ (log[k + 1][2] = SUCCESS /\ log[k + 1][3])
                    => trc = SUCCESS

\* Two NAKs, then ACK on the third attempt: the transfer succeeded.
C2_Witness ==
    /\ InTransfer
    /\ trc = SUCCESS
    /\ Cardinality({i \in Idx("gate") : log[i][3] = NAK}) = MAXRETRIES
    /\ Cardinality({i \in Idx("gate") : log[i][3] = ACK}) = 1

\* C3: when send fails with a status that is neither a timeout nor a
\* protocol error, transfer returns that status at once: no further send,
\* no sleep, no read of the answer, whatever the number of retries used.
C3_FatalPropagates ==
    InTransfer =>
      \A i \in Idx("sendret") :
        log[i][2] \notin (Retryable \cup {SUCCESS}) =>
          /\ trc = log[i][2]
          /\ rc = log[i][2]
          /\ \A j \in (i + 1)..Len(log) :
               log[j][1] \notin TransportKinds \cup {"send"}
          /\ Idx("body") = {}

\* An I/O error on the third attempt, after two retries.
C3_Witness ==
    /\ InTransfer
    /\ trc = IO
    /\ nretries = MAXRETRIES
    /\ Cardinality(Idx("sleep")) = MAXRETRIES

\* C4: a send entered while the cancel flag is set purges, writes and reads
\* nothing, and transfer returns Cancelled without another attempt; a flag
\* that is set once the command is written does not keep the gate byte or
\* the answer from being read.
C4_Cancellation ==
    [][ /\ (pc = "send" /\ cancelled /\ log' # log)
           => /\ log' = log \o << <<"send", TRUE>>,
                                 <<"sendret", CANCELLED>> >>
              /\ trc' = CANCELLED
              /\ rc' = CANCELLED
              /\ pc' \in {"idle", "error_close"}
        /\ (pc \in {"send_response", "transfer_answer"} /\ cancelled
              /\ log' # log)
           => /\ Len(log') > Len(log)
              /\ log'[Len(log) + 1][1] =
                   (IF pc = "send_response" THEN "gate" ELSE "body")
              /\ trc' # CANCELLED
              /\ rc' # CANCELLED
      ]_vars

\* The flag became set during the backoff: the second send was cancelled.
C4_Witness ==
    /\ InTransfer
    /\ trc = CANCELLED
    /\ nretries = 1
    /\ Idx("sleep") # {}

\* The places in the log where an answer that had been ACKed went wrong: it
\* was not read in full, does not end with NAK, or holds a damaged page.
AnswerFailures ==
    {i \in 1..Len(log) :
       log[i][1] = "body" /\ (log[i][2] # SUCCESS \/ ~log[i][3] \/ log[i][4])}

\* C5: in read, version and keepalive, an answer that is not read in full,
\* does not end with NAK or holds a page with a wrong checksum makes the
\* operation return the error; nothing is written after it.
C5_NoResend ==
    op \in {"read", "version", "keepalive"} =>
      \A i \in AnswerFailures :
        /\ pc = "idle"
        /\ rc = (IF log[i][2] # SUCCESS THEN log[i][2] ELSE PROTOCOL)
        /\ \A j \in (i + 1)..Len(log) : log[j][1] \notin {"write", "send"}

\* A read whose answer held a damaged page.
C5_Witness ==
    /\ op = "read"
    /\ \E i \in AnswerFailures : log[i][2] = SUCCESS /\ log[i][3]
    /\ nbytes > 0

\* C6: a read whose address or size is not a multiple of the page size
\* returns InvalidArgument, has not touched the transport and leaves the
\* last page as it was; an aligned read never returns InvalidArgument.
C6_Alignment ==
    (op = "read" /\ pc = "idle") =>
      IF args[1] % PAGESIZE # 0 \/ args[2] % PAGESIZE # 0
        THEN rc = INVALIDARGS /\ log = <<>> /\ last = last0
        ELSE rc # INVALIDARGS

\* An aligned address with a misaligned size, after a read moved the cursor.
C6_Witness ==
    /\ op = "read"
    /\ pc = "idle"
    /\ rc = INVALIDARGS
    /\ args[1] % PAGESIZE = 0
    /\ args[2] > PAGESIZE
    /\ last0 # 0

\* C7: the page index in the keepalive command is, little-endian, the last
\* page of the most recent read request whose transfer completed, and 0 when
\* there was none since open; keepalive, version and a read request whose
\* transfer failed leave it as it is.
C7_KeepaliveIndex ==
    /\ <<last % 256, (last \div 256) % 256>> = lastReq
    /\ (op = "open" /\ pc = "idle") => (last = 0 /\ lastReq = <<0, 0>>)
    /\ op \in {"keepalive", "version"} => last = last0
    /\ (op = "read" /\ nbytes = 0 /\ trc # SUCCESS) => last = last0
    /\ op = "keepalive" =>
         /\ command = <<145, lastReq[1], lastReq[2], 0>>
         /\ \A i \in Idx("write") : log[i][3] = command

\* A keepalive that was answered after a read of page 65534 (0xFFFE).
C7_Witness ==
    /\ op = "keepalive"
    /\ pc = "idle"
    /\ rc = SUCCESS
    /\ command[2] = 254
    /\ command[3] = 255

\* C8: close writes the surface mode command, then closes the transport
\* exactly once whatever became of the write, and returns the status of
\* that close.
C8_CloseReleases ==
    /\ pc = "closed" =>
         /\ Len(log) = 2
         /\ log[1][1] = "write" /\ log[1][3] = <<152, 0>>
         /\ log[2][1] = "close"
         /\ rc = log[2][2]
    /\ pc = "serial_close" =>
         /\ Len(log) = 1
         /\ log[1][1] = "write" /\ log[1][3] = <<152, 0>>

\* The surface mode command failed, the transport closed: success.
C8_Witness ==
    /\ pc = "closed"
    /\ log[1][2] = IO
    /\ rc = SUCCESS

\* The version command of open has been written.
VersionRequested ==
    \E i \in 1..Len(log) : log[i][1] = "write" /\ log[i][3] = <<144, 0>>

\* C9 as stated: a reply to the initialization handshake that differs from
\* the template does not make open fail; open goes on to the version page.
C9_MismatchIsWarning ==
    (op = "open" /\ initReply = "mismatch") =>
      pc \notin {"error_close", "failed"}

\* C9, amended: a complete reply that differs from the template makes open
\* fail with the protocol error, close the transport and never ask for the
\* version page, and so does a reply cut short; only a handshake read that
\* fails with no byte received is passed over: open then asks for the
\* version page and succeeds when that exchange succeeds.
C9_MismatchIsFatal ==
    op = "open" =>
      /\ initReply = "mismatch" =>
           /\ pc \in {"error_close", "failed"}
           /\ rc = PROTOCOL
           /\ ~VersionRequested
           /\ pc = "failed" => log[Len(log)][1] = "close"
      /\ initReply = "partial" =>
           /\ pc \in {"error_close", "failed"}
           /\ rc \in {IO, TIMEOUT}
           /\ ~VersionRequested
      /\ initReply = "empty" =>
           /\ InTransfer
           /\ (trc = SUCCESS /\ AnswerFailures = {})
                => (pc = "idle" /\ rc = SUCCESS /\ version \in VersionStrings)
           /\ pc \in {"error_close", "failed"}
                => (trc \notin {"none", SUCCESS} \/ AnswerFailures # {})

\* No reply to the handshake at all, and open succeeded.
C9_Witness ==
    /\ op = "open"
    /\ initReply = "empty"
    /\ pc = "idle"
    /\ rc = SUCCESS

\* C10: set_fingerprint succeeds exactly for 0 and FINGERPRINT_SIZE bytes;
\* FINGERPRINT_SIZE bytes are stored, 0 bytes put the default (zeros) back,
\* any other size is an error and leaves the fingerprint as it was.
C10_SetFingerprint ==
    LET n == margs[1]
        d == margs[2]
    IN /\ (mrc = DEVICE_STATUS_SUCCESS) <=> (n = 0 \/ n = 6)
       /\ n = 6 => fingerprint = d
       /\ n = 0 => fingerprint = Zeros(6)
       /\ n \notin {0, 6} =>
            (mrc = DEVICE_STATUS_ERROR /\ fingerprint = fingerprint0)

\* A size that is refused while a fingerprint is stored.
C10_Witness ==
    /\ margs[1] = 7
    /\ mrc = DEVICE_STATUS_ERROR
    /\ fingerprint # Zeros(6)

\* The operations on an open handle that exchange commands and answers.
LinkOps == {"read", "version", "keepalive"}
\* A step of these operations that writes a command to the transport.
WritesCommand == op \in LinkOps /\ pc = "send_write" /\ log' # log

\* C19 as stated: a command is written only when the answer to the command
\* written before it has been consumed completely (a gate byte that refuses
\* the command counts as its whole answer).
C19_NoPipelining ==
    [][WritesCommand => exch \in {"consumed", "refused"}]_vars

\* C19, amended: a command is written only when the exchange of the command
\* written before it has ended, its answer consumed completely or the
\* exchange failed (write error, gate byte missing or not ACK, answer cut
\* short), and right after the input was purged; while the gate byte or the
\* answer of a command is awaited nothing else is written.
C19_ExchangeEnded ==
    [][ /\ WritesCommand =>
             /\ exch \in {"consumed", "refused", "nogate", "partial",
                           "writefail"}
             /\ log[Len(log)] = <<"purge">>
             /\ log'[Len(log) + 1][1] = "write"
        /\ (op \in LinkOps /\ exch = "written" /\ log' # log) =>
             (pc = "send_response" /\ log'[Len(log) + 1][1] = "gate")
        /\ (op \in LinkOps /\ exch = "gated" /\ log' # log) =>
             (pc = "transfer_answer" /\ log'[Len(log) + 1][1] = "body")
      ]_vars

\* A read wrote its command again after the gate byte timed out.
C19_Witness ==
    /\ op = "read"
    /\ exch = "written"
    /\ Cardinality(Idx("write")) = 2
    /\ \E i \in Idx("gate") : log[i][2] = TIMEOUT

\* The first page and the number of pages a read was called for.
ReadFirst == args[1] \div PAGESIZE
ReadPages == args[2] \div PAGESIZE
\* The read was called with an aligned address and size.
ReadAligned == args[1] % PAGESIZE = 0 /\ args[2] % PAGESIZE = 0

\* C20: an aligned read asks for ranges of at most MULTIPAGE consecutive
\* pages, in ascending order, each starting where the one before ended; each
\* command names its range little-endian; a page is copied right after its
\* checksum was verified, to the offset of its place in the read; a
\* successful read of n pages from page p has made ceil(n / MULTIPAGE)
\* transfers that cover p .. p+n-1, holds the n pages in order, and leaves
\* the last page at p+n-1 (where it was when n = 0).
C20_PagedRead ==
    (op = "read" /\ ReadAligned) =>
      LET p == ReadFirst
          n == ReadPages
          t == Len(reqs)
      IN /\ \A k \in 1..t :
              /\ reqs[k][1] <= reqs[k][2]
              /\ reqs[k][2] - reqs[k][1] + 1 <= MULTIPAGE
              /\ reqs[k][1] = (IF k = 1 THEN p ELSE reqs[k - 1][2] + 1)
              /\ reqs[k][2] <= p + n - 1
         /\ \A i \in Idx("write") :
              log[i][3] = <<32, reqs[t][1] % 256, (reqs[t][1] \div 256) % 256,
                                reqs[t][2] % 256, (reqs[t][2] \div 256) % 256,
                                0>>
         /\ \A i \in 1..Len(log) :
              log[i][1] = "copy" =>
                /\ log[i - 1] = <<"crc", log[i][2], TRUE>>
                /\ log[i][3] = (reqs[t][1] - p + log[i][2]) * PAGESIZE
         /\ (pc = "idle" /\ rc = SUCCESS) =>
              /\ t = (n + MULTIPAGE - 1) \div MULTIPAGE
              /\ n > 0 => (reqs[t][2] = p + n - 1 /\ last = p + n - 1)
              /\ n = 0 => (last = last0 /\ log = <<>>)
              /\ Len(data) = n * PAGESIZE
              /\ \A k \in 0..(n - 1) :
                   SubSeq(data, k * PAGESIZE + 1, (k + 1) * PAGESIZE)
                     = DevicePage(p + k)
              /\ n > 0 =>
                   Cardinality(Idx("copy")) = reqs[t][2] - reqs[t][1] + 1

\* A read of more than MULTIPAGE pages that runs past page 65535.
C20_Witness ==
    /\ op = "read"
    /\ pc = "idle"
    /\ rc = SUCCESS
    /\ ReadFirst = 65534
    /\ ReadPages > MULTIPAGE
    /\ Len(reqs) = 2

\* ------------------------------------------------- claims: the extraction

\* The least element of a non-empty set of numbers.
Min(S) == CHOOSE x \in S : \A y \in S : x <= y
\* The events of one kind that foreach and the extraction have emitted.
Events(kind) == SelectSeq(emitted, LAMBDA e : e[1] = kind)
\* The dives handed to the consumer: <<"dive", slot, length, bytes, keep>>.
Dives == Events("dive")
\* The extraction has entered its loop.
Walked == Events("slot") # <<>>
\* The consumer has asked for more after every dive.
AllKept == \A j \in 1..Len(Dives) : Dives[j][5]
\* The k-th logbook slot counted back from the last one, k = 0 the newest.
Slot(k) ==
    IF image.last >= k THEN image.last - k
    ELSE image.last - k + layout.rb_logbook_count
\* The number of valid dives of the image: the slots counted back from the
\* last one up to the first that is unused or whose profile does not fit in
\* what the newer ones have left of the ring.
RECURSIVE ValidDives(_, _)
ValidDives(k, used) ==
    IF k >= layout.rb_logbook_count THEN k
    ELSE LET ns == image.nsamples[Slot(k) + 1]
         IN IF ns = 65535 \/ used + ns * layout.samplesize > RingSize(layout)
              THEN k
              ELSE ValidDives(k + 1, used + ns * layout.samplesize)
\* The bytes of the image at a .. a + n - 1.
ImageSeg(a, n) == [k \in 1..n |-> data_at(layout, image, a + k - 1)]
\* The profile bytes of the dives before the j-th one handed out.
RECURSIVE LengthBefore(_)
LengthBefore(j) == IF j <= 1 THEN 0 ELSE Dives[j - 1][3] + LengthBefore(j - 1)

\* C11: an image whose end-of-profile pointer is outside the profile ring
\* or whose last logbook index is not below the number of entries makes the
\* extraction return the error before it reads a slot or hands out a dive;
\* an image with both in range never makes it return that error.
C11_PointerValidation ==
    (mpc \in {"loop", "returned"} /\ image # NoImage) =>
      IF \/ image.eop < layout.rb_profile_begin
         \/ image.eop >= layout.rb_profile_end
         \/ image.last >= layout.rb_logbook_count
        THEN /\ mpc = "returned"
             /\ frc = DEVICE_STATUS_ERROR
             /\ Dives = <<>>
             /\ ~Walked
        ELSE frc # DEVICE_STATUS_ERROR

\* The pointer is the end of the ring: the error.
C11_Witness ==
    /\ mpc = "returned"
    /\ image # NoImage
    /\ image.eop = layout.rb_profile_end
    /\ image.last < layout.rb_logbook_count
    /\ frc = DEVICE_STATUS_ERROR

\* C12: one extraction of the logbook variant hands out at most as many
\* dives as the logbook has entries and reads the slots last, last - 1, ...
\* modulo the number of entries, none of them twice; one extraction of the
\* marker variant hands out fewer dives than the ring has bytes.
C12_RecordBound ==
    /\ mpc \in {"loop", "returned"} =>
         LET slots == Events("slot")
         IN /\ Len(Dives) <= layout.rb_logbook_count
            /\ Len(slots) <= layout.rb_logbook_count
            /\ \A k \in 1..Len(slots) : slots[k][2] = Slot(k - 1)
            /\ \A j, k \in 1..Len(slots) :
                 j # k => slots[j][2] # slots[k][2]
            /\ \A j \in 1..Len(Dives) : Dives[j][2] = slots[j][2]
    /\ spc # "idle" => Len(delivered) < ring.end - ring.begin

\* Every entry of the small logbook was handed out.
C12_Witness ==
    /\ mpc = "returned"
    /\ layout.rb_logbook_count = MaxEntries
    /\ Len(Dives) = MaxEntries

\* C13: when the stored fingerprint equals the leading bytes of valid dive
\* N (counted from the newest, 0) and of no newer one, the extraction hands
\* out dives 0 .. N-1 in that order, never dive N nor an older one, and
\* returns success; it hands out all of 0 .. N-1 unless the consumer stops.
C13_FingerprintStop ==
    (Walked /\ mpc \in {"loop", "returned"}) =>
      LET V == ValidDives(0, 0)
          M == {k \in 0..(V - 1) : image.lead[Slot(k) + 1] = fingerprint}
      IN M # {} =>
           LET N == Min(M)
           IN /\ Len(Dives) <= N
              /\ \A j \in 1..Len(Dives) :
                   /\ Dives[j][2] = Slot(j - 1)
                   /\ SubSeq(Dives[j][4], 1, FINGERPRINT_SIZE)
                        = image.lead[Slot(j - 1) + 1]
              /\ mpc = "returned" =>
                   /\ frc = DEVICE_STATUS_SUCCESS
                   /\ AllKept =>
                        /\ Len(Dives) = N
                        /\ Events("match") = << <<"match", Slot(N)>> >>

\* The fingerprint is the third dive's: the two newer ones were handed out.
C13_Witness ==
    /\ mpc = "returned"
    /\ fingerprint = LeadA
    /\ Len(Dives) = 2
    /\ AllKept
    /\ Events("match") # <<>>

\* C14 as stated: with the default fingerprint the comparison never stops
\* the extraction, which hands out every valid dive whatever its leading
\* bytes are.
C14_DefaultExtractsAll ==
    (mpc = "returned" /\ Walked /\ fingerprint = Zeros(FINGERPRINT_SIZE)) =>
      /\ Events("match") = <<>>
      /\ AllKept => Len(Dives) = ValidDives(0, 0)

\* C15: the profile of a dive of the logbook variant is the bytes of the
\* ring that end where the newer dives begin, and the bytes of a dive of the
\* marker variant are those from its start up to the newer dive; a dive that
\* crosses the wrap point is the tail segment, up to the end of the ring,
\* followed by the head segment, from the begin of the ring.
C15_WrapCopy ==
    /\ \A j \in 1..Len(Dives) :
         LET S == RingSize(layout)
             L == Dives[j][3]
             profile == SubSeq(Dives[j][4], layout.rb_logbook_size + 1,
                               Len(Dives[j][4]))
             o == (image.eop - layout.rb_profile_begin + 2 * S
                     - LengthBefore(j) - L) % S
         IN /\ L = image.nsamples[Dives[j][2] + 1] * layout.samplesize
            /\ Len(profile) = L
            /\ profile =
                 IF o + L > S
                   THEN ImageSeg(layout.rb_profile_begin + o, S - o)
                          \o ImageSeg(layout.rb_profile_begin, o + L - S)
                   ELSE ImageSeg(layout.rb_profile_begin + o, L)
    /\ \A j \in 1..Len(delivered) :
         LET S == ring.end - ring.begin
             d == delivered[j]
             o == d.from - ring.begin
             L == (d.to - d.from + S) % S
         IN /\ d.len = L
            /\ L > 0
            /\ d.bytes =
                 IF o + L > S
                   THEN [k \in 1..(S - o) |-> ring.bytes[d.from + k]]
                          \o [k \in 1..(o + L - S) |->
                                ring.bytes[ring.begin + k]]
                   ELSE [k \in 1..L |-> ring.bytes[d.from + k]]

\* A dive of the marker variant that crosses the wrap point.
C15_Witness ==
    /\ spc = "returned"
    /\ \E j \in 1..Len(delivered) :
         /\ delivered[j].from + delivered[j].len > ring.end
         /\ delivered[j].len > 2

\* C16: scenario 1. With the layout of the Darwin Air and an image with
\* eop = 0x0CC5, last = 0, 10 samples in entry 0 and no older dive, the
\* extraction hands out one dive of 90 bytes: the 60 bytes of logbook slot
\* 0, then the 30 profile bytes that end at 0x0CC5, of which 25 lie at the
\* end of the ring and 5 at its begin.
C16_Scenario1 ==
    (/\ layout = mares_darwinair_layout
     /\ mpc = "returned"
     /\ Walked
     /\ image.eop = 3269 /\ image.last = 0 /\ image.nsamples[1] = 10
     /\ fingerprint # image.lead[1]) =>
      /\ frc = DEVICE_STATUS_SUCCESS
      /\ Len(Dives) = 1
      /\ Dives[1][2] = 0
      /\ Len(Dives[1][4]) = 90
      /\ Dives[1][4] = ImageSeg(256, 60) \o ImageSeg(16358, 25)
                         \o ImageSeg(3264, 5)

\* Scenario 1 has run and the consumer asked for more.
C16_Witness ==
    /\ layout = mares_darwinair_layout
    /\ mpc = "returned"
    /\ Len(Dives) = 1
    /\ Dives[1][5]

\* C17 as stated: scenario 2 hands out one dive, the bytes at positions 7
\* to 10.
C17_Scenario2Claimed ==
    (ring = ScenarioRing /\ spc = "returned") =>
      /\ Len(delivered) = 1
      /\ delivered[1].bytes = [k \in 1..4 |-> ring.bytes[7 + k]]

\* C17, amended: scenario 2 hands out one dive of two bytes, those at
\* positions 8 and 9: it starts peek positions after the end-of-dive marker
\* at 6 and ends before the end-of-profile marker at 10.
C17_Scenario2 ==
    (ring = ScenarioRing /\ spc # "idle") =>
      /\ spc \in {"walk", "returned"}
      /\ Len(delivered) <= 1
      /\ (spc = "returned" \/ ring_i >= 2) =>
           /\ Len(delivered) = 1
           /\ delivered[1].len = 2
           /\ delivered[1].bytes = <<ring.bytes[9], ring.bytes[10]>>
           /\ delivered[1].bytes = <<SampleByte(8), SampleByte(9)>>

\* Scenario 2 has run to its end.
C17_Witness ==
    /\ ring = ScenarioRing
    /\ spc = "returned"
    /\ ring_current = 10

\* C18: foreach emits the device info once, after the dump succeeded and
\* before the extraction reads a slot or hands out a dive; when the dump
\* fails foreach returns its error and nothing is emitted or handed out;
\* the return of the extraction is the last event and foreach returns its
\* status.
C18_ForeachOrder ==
    mpc \in {"loop", "returned"} =>
      LET dev == {i \in 1..Len(emitted) : emitted[i][1] = "devinfo"}
      IN /\ emitted = <<>> =>
              (mpc = "returned" /\ frc = DEVICE_STATUS_MEMORY)
         /\ emitted # <<>> =>
              /\ emitted[1][1] = "dump"
              /\ IF emitted[1][2] # DEVICE_STATUS_SUCCESS
                   THEN /\ Len(emitted) = 1
                        /\ mpc = "returned"
                        /\ frc = emitted[1][2]
                   ELSE dev = {2}
         /\ \A i \in 1..Len(emitted) :
              /\ emitted[i][1] \in {"slot", "dive", "match", "return"}
                   => (dev = {2} /\ i > 2)
              /\ emitted[i][1] = "return" =>
                   /\ i = Len(emitted)
                   /\ mpc = "returned"
                   /\ frc = emitted[i][2]
         /\ (mpc = "returned" /\ dev # {}) =>
              emitted[Len(emitted)][1] = "return"

\* The consumer stopped the extraction at the second dive.
C18_Witness ==
    /\ mpc = "returned"
    /\ Len(Dives) = 2
    /\ ~Dives[2][5]
    /\ frc = DEVICE_STATUS_SUCCESS

\* The profile bytes of the dives handed out after which the consumer asked
\* for more.
RECURSIVE KeptLength(_)
KeptLength(j) ==
    IF j = 0 THEN 0
    ELSE (IF Dives[j][5] THEN Dives[j][3] ELSE 0) + KeptLength(j - 1)

\* C21: when the consumer returns stop for a dive, the extraction is over:
\* that dive is the last one handed out, no slot is read after its own, the
\* extraction returns success right after it. When the consumer returns
\* continue, remaining has gone down by the profile length of that dive when
\* the next slot is examined: in the loop and at its end remaining is the
\* size of the ring less the profile lengths of the dives so continued.
C21_ConsumerStop ==
    (mpc = "loop" \/ (mpc = "returned" /\ Walked)) =>
      /\ \A j \in 1..Len(Dives) :
           ~Dives[j][5] =>
             /\ j = Len(Dives)
             /\ Len(Events("slot")) = j
             /\ Events("match") = <<>>
             /\ mpc = "returned"
             /\ frc = DEVICE_STATUS_SUCCESS
             /\ Len(emitted) >= 2
             /\ emitted[Len(emitted) - 1] = Dives[j]
             /\ emitted[Len(emitted)] = <<"return", DEVICE_STATUS_SUCCESS>>
      /\ remain = RingSize(layout) - KeptLength(Len(Dives))
      /\ mpc = "loop" =>
           /\ AllKept
           /\ iter = Len(Dives)
           /\ Len(Events("slot")) = iter

\* The consumer stopped at the first of several dives after which a second
\* one with a profile was waiting.
C21_Witness ==
    /\ mpc = "returned"
    /\ Len(Dives) = 1
    /\ ~Dives[1][5]
    /\ Dives[1][3] > 0
    /\ layout.rb_logbook_count > 1
    /\ image.nsamples[Slot(1) + 1] = 2

\* The call met the assertions on its arguments: eop is in the ring and the
\* byte at eop is the end-of-profile marker.
RingOk ==
    /\ ring # NoRing
    /\ ring.eop >= ring.begin
    /\ ring.eop < ring.end
    /\ ring_data(ring, ring.eop) = 130
\* The position k steps back from eop, wrapped, for k up to the ring span.
Back(k) ==
    LET S == ring.end - ring.begin
    IN ring.begin + (((ring.eop - ring.begin) + S - k) % S)

\* C22: on a ring that meets the entry assertions the backward walk takes at
\* most end - begin steps, none of its steps before the last lands on an
\* end-of-profile marker, it stops at the first step that does and so ends
\* with current on such a marker: the final assertion never fails. A ring
\* whose byte just before eop, wrapped, is the marker hands out nothing.
C22_WalkEnds ==
    (spc # "idle" /\ RingOk) =>
      LET S == ring.end - ring.begin
          steps == IF spc = "returned" THEN ring_i + 1 ELSE ring_i
      IN /\ spc \in {"walk", "returned"}
         /\ steps <= S
         /\ spc = "walk" => ring_i < S
         /\ ring_current = Back(steps)
         /\ \A k \in 1..ring_i : ring_data(ring, Back(k)) # 130
         /\ spc = "returned" => ring_data(ring, ring_current) = 130
         /\ ring_data(ring, Back(1)) = 130 =>
              /\ delivered = <<>>
              /\ ring_i = 0

\* The walk went once round a ring with a single end-of-profile marker,
\* through the wrap point, and handed out a dive on its way.
C22_Witness ==
    /\ RingOk
    /\ spc = "returned"
    /\ ring.end - ring.begin = MaxSpan
    /\ ring_i + 1 = MaxSpan
    /\ ring_current = ring.eop
    /\ ring.eop > ring.begin
    /\ delivered # <<>>

\* What the extraction has read or written of one kind: "data" and "profile"
\* are reads from the image, "buffer" is a write to the buffer.
Accesses(kind) == SelectSeq(access, LAMBDA x : x[1] = kind)

\* C23: on an image that passed the validation, in the loop and after it:
\* current is in the profile ring, remaining has not gone below zero nor
\* above the ring size, the profile bytes read for the dives are inside the
\* ring and pairwise disjoint and the lengths of the dives handed out add up
\* to at most the ring size, every read lies inside the memory image, and
\* every write lies inside the buffer of rb_logbook_size plus ring size
\* bytes, as every record of rb_logbook_size + length bytes does.
C23_WalkInvariant ==
    (mpc = "loop" \/ (mpc = "returned" /\ Walked)) =>
      LET S == RingSize(layout)
          prof == Accesses("profile")
      IN /\ current >= layout.rb_profile_begin
         /\ current < layout.rb_profile_end
         /\ remain >= 0
         /\ remain <= S
         /\ LengthBefore(Len(Dives) + 1) <= S
         /\ \A i \in 1..Len(prof) :
              /\ prof[i][3] >= 0
              /\ prof[i][2] >= layout.rb_profile_begin
              /\ prof[i][2] + prof[i][3] <= layout.rb_profile_end
         /\ \A i, j \in 1..Len(prof) :
              (i < j /\ prof[i][3] > 0 /\ prof[j][3] > 0) =>
                \/ prof[i][2] + prof[i][3] <= prof[j][2]
                \/ prof[j][2] + prof[j][3] <= prof[i][2]
         /\ \A i \in 1..Len(access) :
              /\ access[i][2] >= 0
              /\ access[i][3] >= 0
              /\ access[i][2] + access[i][3] <=
                   IF access[i][1] = "buffer"
                     THEN layout.rb_logbook_size + S
                     ELSE layout.memsize
         /\ \A j \in 1..Len(Dives) :
              /\ Len(Dives[j][4]) = layout.rb_logbook_size + Dives[j][3]
              /\ Len(Dives[j][4]) <= layout.rb_logbook_size + S

\* Two dives with a profile were handed out, the second one across the wrap
\* point, and one byte of the ring is left.
C23_Witness ==
    /\ mpc = "returned"
    /\ Len(Dives) >= 2
    /\ AllKept
    /\ remain = 1
    /\ \E i, j \in 1..Len(access) :
         /\ access[i][1] = "profile" /\ access[j][1] = "profile"
         /\ access[i][3] > 0 /\ access[j][3] > 0
         /\ access[i][2] + access[i][3] = layout.rb_profile_end
         /\ access[j][2] = layout.rb_profile_begin
         /\ j = i + 2
====
